---------------------------- MODULE Spec2Model ----------------------------
(* Group-membership audit scripts: identity normalisation, paged and      *)
(* batched roster retrieval, snapshot loading and snapshot comparison.    *)
(*                                                                        *)
(* Text is a sequence of code points.  A roster maps a group name (text)  *)
(* to a list of member identifiers (texts), as the Python dicts do.       *)
EXTENDS Integers, Sequences, FiniteSets, TLC

VARIABLES
    pc,             \* position of the modelled call
    variant,        \* which script's code is running
    s,              \* clean_text: the raw input string
    cleaned,        \* clean_text(s)
    recleaned,      \* clean_text(clean_text(s))
    current,        \* the current roster (pipeline.py: current member list)
    previous,       \* the previous snapshot (pipeline.py: previous member list)
    result,         \* what the comparison returned
    pages,          \* directory service: group id -> chain of member pages
    group_id,       \* single-group fetch: the group asked for
    url,            \* single-group fetch: page to request next, 0 for None
    members,        \* single-group fetch: the list accumulated so far
    requested,      \* single-group fetch: the pages requested, in order
    groups,         \* batched fetch: the list get_groups() returned
    svc_failed,     \* directory service: ids of the groups whose sub-request fails
    done,           \* batched fetch: number of loop iterations completed
    batch_requests, \* batched fetch: sub-requests not yet posted
    batch_counter,  \* batched fetch: id of the next sub-request
    group_members,  \* batched fetch: the roster built so far
    sent,           \* batched fetch: the batch calls posted, in order
    artifact,       \* snapshot store: the file a load finds
    loaded,         \* snapshot store: what the load returned
    group_names,    \* the names load_groups_from_csv returned
    directory,      \* directory service: the display names that match a group
    name_to_id,     \* what get_group_ids_from_names returned
    dest,           \* snapshot store: the file at the path a save writes
    reloaded,       \* snapshot store: what a load of the saved file returned
    emitted,        \* what a run has produced besides the snapshot
    exit_code,      \* the exit status of the process, -1 while it runs
    env,            \* the environment variables that are set
    steps,          \* the steps main has taken in this run, in order
    run_no          \* the number of the run, 0 where no run is modelled

textVars == <<s, cleaned, recleaned>>
compareVars == <<current, previous, result>>
fetchVars == <<pages, group_id, url, members, requested>>
batchVars == <<groups, svc_failed, done, batch_requests, batch_counter, group_members, sent>>
loadVars == <<artifact, loaded>>
rosterVars == <<group_names, directory, name_to_id>>
saveVars == <<dest, reloaded, emitted, exit_code, env, steps, run_no>>
vars == <<pc, variant, textVars, compareVars, fetchVars, batchVars, loadVars, rosterVars,
          saveVars>>

--------------------------------------------------------------------------
(* Bounds of the model.                                                   *)
MaxLen == 3         \* longest raw string handed to clean_text
MaxList == 2        \* longest member list of one group in a roster
MaxPages == 3       \* most member pages the service holds for one group
MaxGroups == 22     \* most groups get_groups() returns
MaxFailed == 1      \* most groups whose batch sub-request fails in one run
MaxNames == 2       \* most group names in the input file

--------------------------------------------------------------------------
(* Code points used by the model.                                         *)
SP == 32            \* U+0020 SPACE, removed by str.strip()
LA == 97            \* U+0061 'a'
LE == 101           \* U+0065 'e'
EACUTE == 233       \* U+00E9, the NFC composition of 'e' + U+0301
ACUTE == 769        \* U+0301 COMBINING ACUTE ACCENT
BOM == 65279        \* U+FEFF, the byte-order mark

Chars == {SP, LA, LE, ACUTE, BOM}

SeqsUpTo(S, n) == UNION {[1..k -> S] : k \in 0..n}

ToSet(q) == {q[i] : i \in DOMAIN q}

--------------------------------------------------------------------------
(* clean_text: s.lstrip(BOM).strip(), then NFC.                           *)

RECURSIVE lstrip(_, _)
lstrip(t, c) == IF t # <<>> /\ Head(t) = c THEN lstrip(Tail(t), c) ELSE t

RECURSIVE rstrip(_, _)
rstrip(t, c) ==
    IF t # <<>> /\ t[Len(t)] = c THEN rstrip(SubSeq(t, 1, Len(t) - 1), c) ELSE t

strip(t) == rstrip(lstrip(t, SP), SP)

RECURSIVE NFC(_)
NFC(t) ==
    IF Len(t) < 2 THEN t
    ELSE IF t[1] = LE /\ t[2] = ACUTE
         THEN <<EACUTE>> \o NFC(SubSeq(t, 3, Len(t)))
         ELSE <<t[1]>> \o NFC(Tail(t))

clean_text(t) == IF t = <<>> THEN <<>> ELSE NFC(strip(lstrip(t, BOM)))

--------------------------------------------------------------------------
(* Python's sorted() on a list of strings: code-point lexicographic       *)
(* order, duplicates kept.                                                *)

RECURSIVE TextLess(_, _)
TextLess(a, b) ==
    IF a = <<>> THEN b # <<>>
    ELSE IF b = <<>> THEN FALSE
    ELSE IF a[1] # b[1] THEN a[1] < b[1]
    ELSE TextLess(Tail(a), Tail(b))

RECURSIVE InsertSorted(_, _)
InsertSorted(e, q) ==
    IF q = <<>> THEN <<e>>
    ELSE IF TextLess(e, Head(q)) THEN <<e>> \o q
    ELSE <<Head(q)>> \o InsertSorted(e, Tail(q))

RECURSIVE sorted(_)
sorted(q) == IF q = <<>> THEN <<>> ELSE InsertSorted(q[Len(q)], sorted(SubSeq(q, 1, Len(q) - 1)))

(* list(a_set): the elements in an order the interpreter picks; every use *)
(* in the scripts sorts the list or only tests it for emptiness.          *)
RECURSIVE SetToList(_)
SetToList(S) ==
    IF S = {} THEN <<>>
    ELSE LET e == CHOOSE e \in S : TRUE IN <<e>> \o SetToList(S \ {e})

(* The orders in which a for loop may visit a set.                        *)
Orderings(S) == {q \in [1..Cardinality(S) -> S] : ToSet(q) = S}

(* dict.get(key, []) *)
GetOrEmpty(d, k) == IF k \in DOMAIN d THEN d[k] ELSE <<>>

(* d[k] = v on a dict held as a function *)
Put(d, k, v) == [x \in DOMAIN d \cup {k} |-> IF x = k THEN v ELSE d[x]]

EmptyDict == [x \in {} |-> <<>>]

--------------------------------------------------------------------------
(* Input domains of the comparison.                                       *)
GroupPool == {<<LA>>, <<LE>>}
MemberPool == {<<LA>>, <<LE>>}

Rosters ==
    UNION {[D -> SeqsUpTo(MemberPool, MaxList)] : D \in SUBSET GroupPool}

(* pipeline.py GroupMember, reduced to the fields the comparison reads    *)
(* (id) and one payload field (display_name).                             *)
GroupMember == [id : MemberPool, display_name : MemberPool]

MemberLists == SeqsUpTo(GroupMember, MaxList)

(* A file that holds a JSON document (d, its keys in the order o), and   *)
(* the absence of the file.                                               *)
JsonFile(d, o) == [state |-> "json", data |-> d, order |-> o]
MissingFile == [state |-> "missing", data |-> <<>>, order |-> <<>>]

NoResult == [result |-> EmptyDict, changes_detected |-> FALSE,
             added_groups |-> <<>>, deleted_groups |-> <<>>]

--------------------------------------------------------------------------
(* Critical_group_report.py compare_snapshots.  The three branches of the *)
(* loop body, each taking the accumulated (result, changes_detected,      *)
(* added_groups, deleted_groups) and returning it updated.                *)

group_added_unlisted(cur, group, acc) ==
    [acc EXCEPT
        !.result = Put(@, group, [added |-> sorted(cur[group]),
                                  removed |-> <<>>,
                                  unchanged |-> <<>>]),
        !.changes_detected = TRUE]

group_added_unflagged(cur, group, acc) ==
    [acc EXCEPT
        !.added_groups = Append(@, group),
        !.result = Put(@, group, [added |-> sorted(cur[group]),
                                  removed |-> <<>>,
                                  unchanged |-> <<>>])]

(* "if group not in previous" *)
group_added(cur, group, acc) ==
    [acc EXCEPT
        !.added_groups = Append(@, group),
        !.result = Put(@, group, [added |-> sorted(cur[group]),
                                  removed |-> <<>>,
                                  unchanged |-> <<>>]),
        !.changes_detected = TRUE]

group_deleted_silent(prev, group, acc) ==
    [acc EXCEPT
        !.deleted_groups = Append(@, group),
        !.result = Put(@, group, [added |-> <<>>,
                                  removed |-> sorted(prev[group]),
                                  unchanged |-> <<>>])]

(* "elif group not in current" *)
group_deleted(prev, group, acc) ==
    [acc EXCEPT
        !.deleted_groups = Append(@, group),
        !.result = Put(@, group, [added |-> <<>>,
                                  removed |-> sorted(prev[group]),
                                  unchanged |-> <<>>]),
        !.changes_detected = TRUE]

group_compared_all_unchanged(cur_members, prev_members, group, acc) ==
    LET added == SetToList(cur_members \ prev_members)
        removed == SetToList(prev_members \ cur_members)
    IN  [acc EXCEPT
            !.changes_detected =
                IF added # <<>> \/ removed # <<>> THEN TRUE ELSE @,
            !.result = Put(@, group,
                [added |-> sorted(added),
                 removed |-> sorted(removed),
                 unchanged |-> sorted(SetToList(cur_members))])]

group_compared_flagged(cur_members, prev_members, group, acc) ==
    LET added == SetToList(cur_members \ prev_members)
        removed == SetToList(prev_members \ cur_members)
    IN  [acc EXCEPT
            !.changes_detected = TRUE,
            !.result = Put(@, group,
                [added |-> sorted(added),
                 removed |-> sorted(removed),
                 unchanged |-> sorted(SetToList(cur_members \cap prev_members))])]

(* "else": the group is in both snapshots *)
group_compared(cur_members, prev_members, group, acc) ==
    LET added == SetToList(cur_members \ prev_members)
        removed == SetToList(prev_members \ cur_members)
    IN  [acc EXCEPT
            !.changes_detected =
                IF added # <<>> \/ removed # <<>> THEN TRUE ELSE @,
            !.result = Put(@, group,
                [added |-> sorted(added),
                 removed |-> sorted(removed),
                 unchanged |-> sorted(SetToList(cur_members \cap prev_members))])]

(* One iteration of "for group in all_keys". *)
compare_step(cur, prev, group, acc) ==
    LET cur_members == ToSet(GetOrEmpty(cur, group))
        prev_members == ToSet(GetOrEmpty(prev, group))
    IN  IF group \notin DOMAIN prev THEN group_added(cur, group, acc)
        ELSE IF group \notin DOMAIN cur THEN group_deleted(prev, group, acc)
        ELSE group_compared(cur_members, prev_members, group, acc)

RECURSIVE compare_loop(_, _, _, _)
compare_loop(cur, prev, order, acc) ==
    IF order = <<>> THEN acc
    ELSE compare_loop(cur, prev, Tail(order), compare_step(cur, prev, Head(order), acc))

(* order: the order in which the loop visits all_keys *)
compare_snapshots(cur, prev, order) == compare_loop(cur, prev, order, NoResult)

(* get_test_with_sort.py compare_snapshots: no added/deleted group lists, *)
(* no branch on the presence of the group.                                *)
compare_step_sort(cur0, prev0, group, acc) ==
    LET cur == ToSet(GetOrEmpty(cur0, group))
        prev == ToSet(GetOrEmpty(prev0, group))
        added == SetToList(cur \ prev)
        removed == SetToList(prev \ cur)
    IN  [acc EXCEPT
            !.changes_detected =
                IF added # <<>> \/ removed # <<>> THEN TRUE ELSE @,
            !.result = Put(@, group,
                [added |-> sorted(added),
                 removed |-> sorted(removed),
                 unchanged |-> sorted(SetToList(cur \cap prev))])]

RECURSIVE compare_loop_sort(_, _, _, _)
compare_loop_sort(cur, prev, order, acc) ==
    IF order = <<>> THEN acc
    ELSE compare_loop_sort(cur, prev, Tail(order),
                           compare_step_sort(cur, prev, Head(order), acc))

compare_snapshots_sort(cur, prev, order) ==
    compare_loop_sort(cur, prev, order, NoResult)

(* pipeline.py MembershipComparator.compare_memberships.                  *)
(* {member.id: member for member in members}: the last record of an id    *)
(* wins.                                                                  *)
RECURSIVE DictById(_)
DictById(ms) ==
    IF ms = <<>> THEN EmptyDict
    ELSE LET m == ms[Len(ms)]
             rest == DictById(SubSeq(ms, 1, Len(ms) - 1))
         IN  Put(rest, m.id, m)

(* o_new, o_removed, o_unchanged: the orders in which the three list      *)
(* comprehensions visit their id sets.                                    *)
compare_memberships(current_members, previous_members, o_new, o_removed, o_unchanged) ==
    LET current_dict == DictById(current_members)
        previous_dict == DictById(previous_members)
    IN  [new_members |-> [i \in DOMAIN o_new |-> current_dict[o_new[i]]],
         removed_members |-> [i \in DOMAIN o_removed |-> previous_dict[o_removed[i]]],
         unchanged_members |-> [i \in DOMAIN o_unchanged |-> current_dict[o_unchanged[i]]]]

Ids(ms) == {ms[i].id : i \in DOMAIN ms}

--------------------------------------------------------------------------
(* Specification of the normaliser: an input string, cleaned once, then   *)
(* cleaned again.                                                         *)
CompareIdle == current = <<>> /\ previous = <<>> /\ result = <<>>
TextIdle == s = <<>> /\ cleaned = <<>> /\ recleaned = <<>>
FetchIdle ==
    /\ pages = <<>> /\ group_id = <<>> /\ url = 0
    /\ members = <<>> /\ requested = <<>>
BatchIdle ==
    /\ groups = <<>> /\ svc_failed = {} /\ done = 0 /\ batch_requests = <<>>
    /\ batch_counter = 1 /\ group_members = <<>> /\ sent = <<>>
LoadIdle ==
    /\ artifact = <<>> /\ loaded = <<>>
    /\ group_names = <<>> /\ directory = {} /\ name_to_id = <<>>
SaveIdle ==
    /\ dest = <<>> /\ reloaded = <<>> /\ emitted = {} /\ exit_code = -1 /\ env = {}
    /\ steps = <<>> /\ run_no = 0

InitClean ==
    /\ pc = "start"
    /\ variant = "critical"
    /\ s \in SeqsUpTo(Chars, MaxLen)
    /\ cleaned = <<>>
    /\ recleaned = <<>>
    /\ CompareIdle /\ FetchIdle /\ BatchIdle /\ LoadIdle
    /\ SaveIdle

CleanOnce ==
    /\ pc = "start"
    /\ cleaned' = clean_text(s)
    /\ pc' = "once"
    /\ UNCHANGED <<saveVars, variant, s, recleaned, compareVars, fetchVars, batchVars, loadVars, rosterVars>>

CleanTwice ==
    /\ pc = "once"
    /\ recleaned' = clean_text(cleaned)
    /\ pc' = "twice"
    /\ UNCHANGED <<saveVars, variant, s, cleaned, compareVars, fetchVars, batchVars, loadVars, rosterVars>>

NextClean == CleanOnce \/ CleanTwice

SpecClean == InitClean /\ [][NextClean]_vars

--------------------------------------------------------------------------
(* Specification of the comparison: a pair of inputs, compared once by    *)
(* one of the three comparison functions.                                 *)
InitCompare ==
    /\ pc = "start"
    /\ TextIdle /\ FetchIdle /\ BatchIdle /\ LoadIdle
    /\ result = <<>>
    /\ \/ /\ variant \in {"critical", "sort"}
          /\ current \in Rosters
          /\ previous \in Rosters
       \/ /\ variant = "pipeline"
          /\ current \in MemberLists
          /\ previous \in MemberLists
    /\ SaveIdle

CompareSnapshots ==
    /\ pc = "start"
    /\ variant = "critical"
    /\ \E order \in Orderings(DOMAIN current \cup DOMAIN previous) :
            result' = compare_snapshots(current, previous, order)
    /\ pc' = "compared"
    /\ UNCHANGED <<saveVars, variant, textVars, current, previous, fetchVars, batchVars, loadVars, rosterVars>>

CompareSnapshotsSort ==
    /\ pc = "start"
    /\ variant = "sort"
    /\ \E order \in Orderings(DOMAIN current \cup DOMAIN previous) :
            result' = compare_snapshots_sort(current, previous, order)
    /\ pc' = "compared"
    /\ UNCHANGED <<saveVars, variant, textVars, current, previous, fetchVars, batchVars, loadVars, rosterVars>>

CompareMemberships ==
    /\ pc = "start"
    /\ variant = "pipeline"
    /\ LET current_ids == Ids(current)
           previous_ids == Ids(previous)
       IN  \E o_new \in Orderings(current_ids \ previous_ids),
              o_removed \in Orderings(previous_ids \ current_ids),
              o_unchanged \in Orderings(current_ids \cap previous_ids) :
                result' = compare_memberships(current, previous,
                                              o_new, o_removed, o_unchanged)
    /\ pc' = "compared"
    /\ UNCHANGED <<saveVars, variant, textVars, current, previous, fetchVars, batchVars, loadVars, rosterVars>>

NextCompare == CompareSnapshots \/ CompareSnapshotsSort \/ CompareMemberships

SpecCompare == InitCompare /\ [][NextCompare]_vars

--------------------------------------------------------------------------
(* Single-group fetch with paging: fetch_group_members                    *)
(* (Critical_group_report.py) and EntraGroupManager.get_group_members     *)
(* (pipeline.py).                                                         *)

(* Member records of the service: a user with a display name (to be       *)
(* trimmed), a user without one, and a nested group.                      *)
UserNamed == [id |-> <<LA>>, displayName |-> <<SP, LA>>, type |-> "user"]
UserUnnamed == [id |-> <<LE>>, displayName |-> <<>>, type |-> "user"]
NestedGroup == [id |-> <<EACUTE>>, displayName |-> <<LA>>, type |-> "group"]
(* a record with neither a display name nor an id *)
Unlabelled == [id |-> <<>>, displayName |-> <<>>, type |-> "user"]

PageValues ==
    {<<>>, <<UserNamed>>, <<UserUnnamed>>, <<NestedGroup>>, <<UserNamed, NestedGroup>>}

(* A chain of n pages: page k carries its records and a continuation link *)
(* to a later page, or none (0).                                          *)
PageChains(n) ==
    {c \in [1..n -> [value : PageValues, next : 0..n]] :
        \A k \in 1..n : c[k].next = 0 \/ c[k].next > k}

TheGroupId == <<LA, LA>>

member_label_id_first(m) ==
    clean_text(IF m.id # <<>> THEN m.id ELSE m.displayName)

(* m.get("displayName") or m.get("id"), cleaned *)
member_label(m) ==
    clean_text(IF m.displayName # <<>> THEN m.displayName ELSE m.id)

(* the inner loop of fetch_group_members over j.get("value", []) *)
page_labels(value) == [k \in DOMAIN value |-> member_label(value[k])]

no_next_link(j) == 0

(* j.get("@odata.nextLink") *)
next_link(j) == j.next

(* the inner loop of get_group_members: user records only *)
RECURSIVE page_users(_)
page_users(value) ==
    IF value = <<>> THEN <<>>
    ELSE (IF Head(value).type = "user"
          THEN <<[id |-> Head(value).id, display_name |-> Head(value).displayName]>>
          ELSE <<>>) \o page_users(Tail(value))

InitFetch ==
    /\ pc = "fetching"
    /\ variant \in {"critical", "pipeline"}
    /\ group_id = TheGroupId
    /\ \E n \in 1..MaxPages : \E c \in PageChains(n) : pages = (TheGroupId :> c)
    /\ url = 1
    /\ members = <<>>
    /\ requested = <<>>
    /\ TextIdle /\ CompareIdle /\ BatchIdle /\ LoadIdle
    /\ SaveIdle

(* One turn of "while url:" in fetch_group_members, the request answered. *)
FetchGroupMembersPage ==
    /\ pc = "fetching"
    /\ variant = "critical"
    /\ url # 0
    /\ LET j == pages[group_id][url]
       IN  /\ requested' = Append(requested, url)
           /\ members' = members \o page_labels(j.value)
           /\ url' = next_link(j)
    /\ UNCHANGED <<saveVars, pc, variant, pages, group_id, textVars, compareVars, batchVars, loadVars, rosterVars>>

(* One turn of "while url:" in get_group_members, the request answered.   *)
GetGroupMembersPage ==
    /\ pc = "fetching"
    /\ variant = "pipeline"
    /\ url # 0
    /\ LET data == pages[group_id][url]
       IN  /\ requested' = Append(requested, url)
           /\ members' = members \o page_users(data.value)
           /\ url' = data.next
    /\ UNCHANGED <<saveVars, pc, variant, pages, group_id, textVars, compareVars, batchVars, loadVars, rosterVars>>

(* The request fails: raise_for_status() raises out of the function.      *)
FetchPageFails ==
    /\ pc = "fetching"
    /\ url # 0
    /\ requested' = Append(requested, url)
    /\ pc' = "raised"
    /\ UNCHANGED <<saveVars, variant, pages, group_id, url, members, textVars, compareVars, batchVars, loadVars, rosterVars>>

(* url is None: the loop ends and the list is returned.                   *)
FetchReturns ==
    /\ pc = "fetching"
    /\ url = 0
    /\ pc' = "returned"
    /\ UNCHANGED <<saveVars, variant, fetchVars, textVars, compareVars, batchVars, loadVars, rosterVars>>

NextFetch ==
    FetchGroupMembersPage \/ GetGroupMembersPage \/ FetchPageFails \/ FetchReturns

SpecFetch == InitFetch /\ [][NextFetch]_vars

--------------------------------------------------------------------------
(* Batched fetch: get_all_group_members of get_test_with_sort.py and of   *)
(* get_test_with_updates_test.py.                                         *)

batch_size == 20

(* str(n) and int(text) on decimal digits (code points 48..57). *)
RECURSIVE str(_)
str(n) == IF n < 10 THEN <<48 + n>> ELSE str(n \div 10) \o <<48 + (n % 10)>>

RECURSIVE int(_)
int(t) == IF t = <<>> THEN 0 ELSE 10 * int(SubSeq(t, 1, Len(t) - 1)) + (t[Len(t)] - 48)

Reverse(q) == [k \in DOMAIN q |-> q[Len(q) + 1 - k]]

(* What get_groups() returns: n groups with distinct ids and distinct     *)
(* display names.                                                         *)
GroupList(n) == [k \in 1..n |-> [id |-> <<LE + k>>, displayName |-> <<LA + k>>]]

(* The service's member list (display names) of the group with id gid:    *)
(* different for every group, empty for some, and for some two records    *)
(* with one display name.                                                 *)
ServiceMembers(gid) ==
    IF gid[1] % 5 = 0 THEN <<>>
    ELSE IF gid[1] % 7 = 0 THEN << <<gid[1]>>, <<gid[1]>> >>
    ELSE IF gid[1] % 2 = 0 THEN << <<gid[1]>>, <<LA>> >>
    ELSE << <<gid[1]>> >>

(* The service's answer to one sub-request {id, method, url}.             *)
SubResponse(r) ==
    [id |-> r.id,
     status |-> IF r.url \in svc_failed THEN 404 ELSE 200,
     body |-> IF r.url \in svc_failed THEN <<>> ELSE ServiceMembers(r.url)]

(* The "responses" array of a batch answer: one sub-response per          *)
(* sub-request, in an order the service picks.                            *)
BatchResponses(reqs) ==
    {[k \in DOMAIN q |-> SubResponse(q[k])] : q \in {reqs, Reverse(reqs)}}

flush_when_full(reqs, group, all_groups) == Len(reqs) = batch_size

(* len(batch_requests) == batch_size or group == groups[-1] *)
flush_due(reqs, group, all_groups) ==
    Len(reqs) = batch_size \/ group = all_groups[Len(all_groups)]

group_index_in_batch(res) == (int(res.id) - 1) % batch_size

(* idx = int(result["id"]) - 1 *)
group_index(res) == int(res.id) - 1

sub_ok_always(res) == TRUE

(* result["status"] == 200 *)
sub_ok(res) == res.status = 200

(* The body of "for result in results". *)
process_result(all_groups, res, roster) ==
    LET idx == group_index(res)
        group_name == all_groups[idx + 1].displayName
    IN  IF sub_ok(res) THEN Put(roster, group_name, res.body) ELSE roster

RECURSIVE process_results(_, _, _)
process_results(all_groups, results, roster) ==
    IF results = <<>> THEN roster
    ELSE process_results(all_groups, Tail(results),
                         process_result(all_groups, Head(results), roster))

(* batch_requests after the append that opens an iteration *)
Appended == Append(batch_requests,
                   [id |-> str(batch_counter), url |-> groups[done + 1].id])

InitBatch ==
    /\ pc = "batching"
    /\ variant \in {"sort", "updates_test"}
    /\ \E n \in 0..MaxGroups : groups = GroupList(n)
    /\ svc_failed \in {F \in SUBSET {groups[k].id : k \in DOMAIN groups} :
                            Cardinality(F) <= MaxFailed}
    /\ done = 0
    /\ batch_requests = <<>>
    /\ batch_counter = 1
    /\ group_members = EmptyDict
    /\ sent = <<>>
    /\ dest = MissingFile
    /\ reloaded = <<>> /\ emitted = {} /\ exit_code = -1 /\ env = {}
    /\ steps = <<>> /\ run_no = 0
    /\ TextIdle /\ CompareIdle /\ FetchIdle /\ LoadIdle

(* An iteration that only appends its sub-request. *)
BatchAppend ==
    /\ pc = "batching"
    /\ done < Len(groups)
    /\ ~flush_due(Appended, groups[done + 1], groups)
    /\ batch_requests' = Appended
    /\ batch_counter' = batch_counter + 1
    /\ done' = done + 1
    /\ UNCHANGED <<saveVars, pc, variant, groups, svc_failed, group_members, sent,
                   textVars, compareVars, fetchVars, loadVars, rosterVars>>

(* An iteration that appends, posts the batch and reads its responses. *)
BatchPost ==
    /\ pc = "batching"
    /\ done < Len(groups)
    /\ flush_due(Appended, groups[done + 1], groups)
    /\ \E results \in BatchResponses(Appended) :
        /\ group_members' = process_results(groups, results, group_members)
        /\ sent' = Append(sent, [requests |-> Appended, status |-> 200,
                                 responses |-> [k \in DOMAIN results |-> results[k].id]])
    /\ batch_requests' = <<>>
    /\ batch_counter' = batch_counter + 1
    /\ done' = done + 1
    /\ UNCHANGED <<saveVars, pc, variant, groups, svc_failed,
                   textVars, compareVars, fetchVars, loadVars, rosterVars>>

(* get_test_with_sort.py: the batch call itself fails and                 *)
(* raise_for_status() raises.                                             *)
BatchPostRaises ==
    /\ pc = "batching"
    /\ variant = "sort"
    /\ done < Len(groups)
    /\ flush_due(Appended, groups[done + 1], groups)
    /\ sent' = Append(sent, [requests |-> Appended, status |-> 500, responses |-> <<>>])
    /\ batch_requests' = Appended
    /\ batch_counter' = batch_counter + 1
    /\ pc' = "raised"
    /\ UNCHANGED <<saveVars, variant, groups, svc_failed, done, group_members,
                   textVars, compareVars, fetchVars, loadVars, rosterVars>>

(* get_test_with_updates_test.py: the batch call itself fails, which is   *)
(* printed; the loop goes on.                                             *)
BatchPostSkipped ==
    /\ pc = "batching"
    /\ variant = "updates_test"
    /\ done < Len(groups)
    /\ flush_due(Appended, groups[done + 1], groups)
    /\ sent' = Append(sent, [requests |-> Appended, status |-> 500, responses |-> <<>>])
    /\ batch_requests' = <<>>
    /\ batch_counter' = batch_counter + 1
    /\ done' = done + 1
    /\ UNCHANGED <<saveVars, pc, variant, groups, svc_failed, group_members,
                   textVars, compareVars, fetchVars, loadVars, rosterVars>>

(* The loop is over: return group_members. *)
BatchReturns ==
    /\ pc = "batching"
    /\ done = Len(groups)
    /\ pc' = "returned"
    /\ UNCHANGED <<saveVars, variant, batchVars, textVars, compareVars, fetchVars, loadVars, rosterVars>>

(* main after get_all_group_members has returned: both scripts go on to  *)
(* write the roster as the snapshot (save_current_snapshot,               *)
(* save_current_as_previous); the keys are written as the groups are      *)
(* listed                                                                 *)
MainSaves ==
    /\ pc = "returned"
    /\ dest' = JsonFile(group_members,
                        SelectSeq([k \in DOMAIN groups |-> groups[k].displayName],
                                  LAMBDA n : n \in DOMAIN group_members))
    /\ pc' = "saved"
    /\ UNCHANGED <<variant, batchVars, reloaded, emitted, exit_code, env, steps, run_no,
                   textVars, compareVars, fetchVars, loadVars, rosterVars>>

NextBatch ==
    \/ BatchAppend
    \/ BatchPost
    \/ BatchPostRaises
    \/ BatchPostSkipped
    \/ BatchReturns
    \/ MainSaves

SpecBatch == InitBatch /\ [][NextBatch]_vars

--------------------------------------------------------------------------
(* Snapshot store, reading: load_previous_snapshot of                     *)
(* Critical_group_report.py and of get_test_with_updates_test.py, and     *)
(* GroupMembershipPipeline.load_previous_members of pipeline.py.          *)

(* normalize_snapshot_keys: the body of "for k, v in snap.items()" *)
normalize_item(snap, k, fixed) ==
    Put(fixed, clean_text(k),
        sorted(SetToList({clean_text(snap[k][n]) : n \in DOMAIN snap[k]})))

RECURSIVE normalize_items(_, _, _)
normalize_items(snap, order, fixed) ==
    IF order = <<>> THEN fixed
    ELSE normalize_items(snap, Tail(order), normalize_item(snap, Head(order), fixed))

(* order: the order of the keys in the dict (the order of the file) *)
normalize_snapshot_keys(snap, order) == normalize_items(snap, order, EmptyDict)

(* The file a load may find.  state: "missing", "unreadable" (open()      *)
(* raises), "invalid_json" (json.load raises), "wrong_shape" (valid JSON  *)
(* that is no object: an array), or "json".                               *)
StoredSnapshots == Rosters

(* wrong: the JSON value of the wrongly shaped file *)
BadFiles(wrong) ==
    {[state |-> "missing", data |-> <<>>, order |-> <<>>],
     [state |-> "unreadable", data |-> <<>>, order |-> <<>>],
     [state |-> "invalid_json", data |-> <<>>, order |-> <<>>],
     [state |-> "wrong_shape", data |-> wrong, order |-> <<>>]}

SnapshotFiles ==
    UNION {{[state |-> "json", data |-> d, order |-> o] : o \in Orderings(DOMAIN d)} :
            d \in StoredSnapshots}

MemberFiles == {[state |-> "json", data |-> d, order |-> <<>>] : d \in MemberLists}

Returned(v) == [outcome |-> "returned", value |-> v]
Raised == [outcome |-> "raised", value |-> <<>>]

(* Critical_group_report.py load_previous_snapshot *)
load_previous_snapshot(file) ==
    IF file.state = "missing" THEN Returned(EmptyDict)
    ELSE IF file.state \in {"unreadable", "invalid_json", "wrong_shape"} THEN Raised
    ELSE Returned(normalize_snapshot_keys(file.data, file.order))

(* get_test_with_updates_test.py load_previous_snapshot: try/except       *)
(* around open() and json.load()                                          *)
load_previous_snapshot_test(file) ==
    IF file.state = "missing" THEN Returned(EmptyDict)
    ELSE IF file.state \in {"unreadable", "invalid_json"} THEN Returned(EmptyDict)
    ELSE Returned(file.data)

(* pipeline.py load_previous_members: only FileNotFoundError is caught;   *)
(* a file without the 'members' list raises KeyError                      *)
load_previous_members(file) ==
    IF file.state = "missing" THEN Returned(<<>>)
    ELSE IF file.state \in {"unreadable", "invalid_json", "wrong_shape"} THEN Raised
    ELSE Returned(file.data)

InitLoad ==
    /\ pc = "start"
    /\ \/ /\ variant \in {"critical", "updates_test"}
          /\ artifact \in BadFiles(<< <<LA>> >>) \cup SnapshotFiles
       \/ /\ variant = "pipeline"
          /\ artifact \in BadFiles(<<>>) \cup MemberFiles
    /\ loaded = <<>>
    /\ group_names = <<>> /\ directory = {} /\ name_to_id = <<>>
    /\ TextIdle /\ CompareIdle /\ FetchIdle /\ BatchIdle
    /\ SaveIdle

LoadPreviousSnapshot ==
    /\ pc = "start"
    /\ variant = "critical"
    /\ loaded' = load_previous_snapshot(artifact)
    /\ pc' = "loaded"
    /\ UNCHANGED <<saveVars, variant, artifact, rosterVars, textVars, compareVars, fetchVars, batchVars>>

LoadPreviousSnapshotTest ==
    /\ pc = "start"
    /\ variant = "updates_test"
    /\ loaded' = load_previous_snapshot_test(artifact)
    /\ pc' = "loaded"
    /\ UNCHANGED <<saveVars, variant, artifact, rosterVars, textVars, compareVars, fetchVars, batchVars>>

LoadPreviousMembers ==
    /\ pc = "start"
    /\ variant = "pipeline"
    /\ loaded' = load_previous_members(artifact)
    /\ pc' = "loaded"
    /\ UNCHANGED <<saveVars, variant, artifact, rosterVars, textVars, compareVars, fetchVars, batchVars>>

NextLoad == LoadPreviousSnapshot \/ LoadPreviousSnapshotTest \/ LoadPreviousMembers

SpecLoad == InitLoad /\ [][NextLoad]_vars

--------------------------------------------------------------------------
(* Snapshot store, writing: save_current_snapshot of                      *)
(* Critical_group_report.py, save_current_as_previous of                  *)
(* get_test_with_updates_test.py and save_current_members of pipeline.py, *)
(* each an open(path, 'w') followed by json.dump; then a load of what was *)
(* written.                                                               *)

(* The keys of normalize_snapshot_keys' result in dict order: a key keeps *)
(* the position of its first insertion.                                   *)
RECURSIVE normalized_order(_, _)
normalized_order(order, seen) ==
    IF order = <<>> THEN seen
    ELSE LET nk == clean_text(Head(order))
         IN  normalized_order(Tail(order),
                              IF nk \in ToSet(seen) THEN seen ELSE Append(seen, nk))

(* open(path, 'w') has truncated the file and json.dump has not finished: *)
(* the text on disk is a proper prefix of a JSON document                 *)
TruncatedFile == [state |-> "invalid_json", data |-> <<>>, order |-> <<>>]

(* Critical_group_report.py save_current_snapshot: the document json.dump *)
(* writes; order is the key order of data                                 *)
save_current_snapshot(data, order) ==
    JsonFile(normalize_snapshot_keys(data, order), normalized_order(order, <<>>))

(* get_test_with_updates_test.py save_current_as_previous *)
save_current_as_previous(current_snapshot, order) == JsonFile(current_snapshot, order)

(* pipeline.py save_current_members: the 'members' list of the document *)
save_current_members(ms) == JsonFile(ms, <<>>)

(* Texts a stored snapshot may hold, a clean one and one with a space and *)
(* a byte-order mark in front.                                            *)
RawPool == {<<LA>>, <<SP, BOM, LA>>}

(* Keys a stored snapshot may hold: those texts and a name with a space   *)
(* in front, which one pass of clean_text turns into the clean one.       *)
RawKeys == RawPool \cup {<<SP, LA>>}

RawSnapshots ==
    UNION {[D -> SeqsUpTo(RawPool, MaxList)] : D \in SUBSET RawKeys}

RawSnapshotFiles ==
    UNION {{JsonFile(d, o) : o \in Orderings(DOMAIN d)} : d \in RawSnapshots}

(* A complete snapshot written by an earlier run. *)
EarlierFile == JsonFile((<<LE>> :> << <<LE>> >>), << <<LE>> >>)

(* the key order of the value a load returned *)
loaded_order ==
    IF variant = "critical" THEN normalized_order(artifact.order, <<>>)
    ELSE artifact.order

(* pipeline.py reads and writes the one file previous_members.json; the   *)
(* other scripts write previous_snapshot.json into the staging directory, *)
(* which may hold the file of an earlier run.                             *)
InitStore ==
    /\ pc = "start"
    /\ \/ /\ variant \in {"critical", "updates_test"}
          /\ artifact \in {MissingFile} \cup RawSnapshotFiles
          /\ dest \in {MissingFile, EarlierFile}
       \/ /\ variant = "pipeline"
          /\ artifact \in {MissingFile} \cup MemberFiles
          /\ dest = artifact
    /\ loaded = <<>>
    /\ reloaded = <<>>
    /\ emitted = {} /\ exit_code = -1 /\ env = {}
    /\ steps = <<>> /\ run_no = 0
    /\ group_names = <<>> /\ directory = {} /\ name_to_id = <<>>
    /\ TextIdle /\ CompareIdle /\ FetchIdle /\ BatchIdle

StoreLoad ==
    /\ pc = "start"
    /\ loaded' = CASE variant = "critical" -> load_previous_snapshot(artifact)
                   [] variant = "updates_test" -> load_previous_snapshot_test(artifact)
                   [] variant = "pipeline" -> load_previous_members(artifact)
    /\ pc' = "loaded"
    /\ UNCHANGED <<variant, artifact, dest, reloaded, emitted, exit_code, env, steps, run_no, rosterVars,
                   textVars, compareVars, fetchVars, batchVars>>

(* open(path, 'w'): the file exists and is empty *)
SaveOpen ==
    /\ pc = "loaded"
    /\ dest' = TruncatedFile
    /\ pc' = "writing"
    /\ UNCHANGED <<variant, artifact, loaded, reloaded, emitted, exit_code, env, steps, run_no, rosterVars,
                   textVars, compareVars, fetchVars, batchVars>>

(* json.dump runs to its end and the file is closed *)
SaveDump ==
    /\ pc = "writing"
    /\ dest' = CASE variant = "critical" -> save_current_snapshot(loaded.value, loaded_order)
                 [] variant = "updates_test" -> save_current_as_previous(loaded.value, loaded_order)
                 [] variant = "pipeline" -> save_current_members(loaded.value)
    /\ pc' = "saved"
    /\ UNCHANGED <<variant, artifact, loaded, reloaded, emitted, exit_code, env, steps, run_no, rosterVars,
                   textVars, compareVars, fetchVars, batchVars>>

(* a write of json.dump raises (the disk is full) or the process is       *)
(* killed: nothing restores the file                                      *)
SaveInterrupted ==
    /\ pc = "writing"
    /\ pc' = "interrupted"
    /\ UNCHANGED <<variant, artifact, dest, loaded, reloaded, emitted, exit_code, env, steps, run_no,
                   rosterVars, textVars, compareVars, fetchVars, batchVars>>

(* the next load finds the file the save wrote *)
LoadAgain ==
    /\ pc = "saved"
    /\ reloaded' = CASE variant = "critical" -> load_previous_snapshot(dest)
                     [] variant = "updates_test" -> load_previous_snapshot_test(dest)
                     [] variant = "pipeline" -> load_previous_members(dest)
    /\ pc' = "reloaded"
    /\ UNCHANGED <<variant, artifact, dest, loaded, emitted, exit_code, env, steps, run_no, rosterVars,
                   textVars, compareVars, fetchVars, batchVars>>

NextStore == StoreLoad \/ SaveOpen \/ SaveDump \/ SaveInterrupted \/ LoadAgain

SpecStore == InitStore /\ [][NextStore]_vars

--------------------------------------------------------------------------
(* Critical_group_report.py get_all_group_members (names resolved to ids, *)
(* then one paged fetch per resolved name) followed by main's comparison  *)
(* with the loaded previous snapshot.                                     *)

(* The id the directory gives the group with this display name. *)
Gid(name) == name \o name

(* The member pages the directory may hold for one group. *)
SomeChains ==
    {<<[value |-> <<>>, next |-> 0]>>,
     <<[value |-> <<UserNamed>>, next |-> 0]>>,
     <<[value |-> <<UserNamed>>, next |-> 2], [value |-> <<UserUnnamed>>, next |-> 0]>>,
     <<[value |-> <<UserNamed, Unlabelled>>, next |-> 0]>>}

(* What load_previous_snapshot returns: keys and members cleaned, member  *)
(* lists sorted and without repeats.                                      *)
LoadedSnapshots ==
    {r \in Rosters : \A g \in DOMAIN r : r[g] = sorted(SetToList(ToSet(r[g])))}

(* get_group_ids_from_names: the body of "for name in group_names" *)
resolve_name(name, group_ids) ==
    IF name \in directory THEN Put(group_ids, name, Gid(name)) ELSE group_ids

RECURSIVE resolve_names(_, _)
resolve_names(names, group_ids) ==
    IF names = <<>> THEN group_ids
    ELSE resolve_names(Tail(names), resolve_name(Head(names), group_ids))

(* fetch_group_members: the whole "while url:" loop, every request        *)
(* answered *)
RECURSIVE fetch_group_members(_, _)
fetch_group_members(chain, link) ==
    IF link = 0 THEN <<>>
    ELSE page_labels(chain[link].value)
            \o fetch_group_members(chain, next_link(chain[link]))

roster_step_keeps_unresolved(name, roster) ==
    IF name \notin DOMAIN name_to_id
    THEN Put(roster, clean_text(name), <<>>)
    ELSE LET got == fetch_group_members(pages[name_to_id[name]], 1)
         IN  Put(roster, clean_text(name),
                 sorted(SetToList({clean_text(got[n]) : n \in DOMAIN got})))

(* get_all_group_members: the body of "for name in group_names" *)
roster_step(name, roster) ==
    IF name \notin DOMAIN name_to_id
    THEN roster
    ELSE LET got == fetch_group_members(pages[name_to_id[name]], 1)
         IN  Put(roster, clean_text(name),
                 sorted(SetToList({clean_text(got[n]) : n \in DOMAIN got})))

RECURSIVE roster_loop(_, _)
roster_loop(names, roster) ==
    IF names = <<>> THEN roster
    ELSE roster_loop(Tail(names), roster_step(Head(names), roster))

InitRoster ==
    /\ pc = "start"
    /\ variant = "critical"
    /\ group_names \in SeqsUpTo(GroupPool, MaxNames)
    /\ directory \in SUBSET GroupPool
    /\ pages \in [{Gid(g) : g \in directory} -> SomeChains]
    /\ name_to_id = EmptyDict
    /\ current = EmptyDict
    /\ previous \in LoadedSnapshots
    /\ result = <<>>
    /\ group_id = <<>> /\ url = 0 /\ members = <<>> /\ requested = <<>>
    /\ artifact = <<>> /\ loaded = <<>>
    /\ dest = MissingFile
    /\ reloaded = <<>> /\ emitted = {} /\ exit_code = -1 /\ env = {}
    /\ steps = <<>> /\ run_no = 0
    /\ TextIdle /\ BatchIdle

(* get_group_ids_from_names, every lookup answered *)
GetGroupIdsFromNames ==
    /\ pc = "start"
    /\ name_to_id' = resolve_names(group_names, EmptyDict)
    /\ pc' = "resolved"
    /\ UNCHANGED <<saveVars, variant, group_names, directory, textVars, compareVars,
                   fetchVars, batchVars, artifact, loaded>>

(* step 3 of get_all_group_members, every page request answered *)
FetchAllMembers ==
    /\ pc = "resolved"
    /\ current' = roster_loop(group_names, EmptyDict)
    /\ pc' = "fetched"
    /\ UNCHANGED <<saveVars, variant, rosterVars, textVars, previous, result,
                   fetchVars, batchVars, artifact, loaded>>

(* a lookup or a page request fails: raise_for_status() raises out of     *)
(* get_all_group_members and main *)
RosterRequestFails ==
    /\ \/ pc = "start" /\ group_names # <<>>
       \/ pc = "resolved" /\ ToSet(group_names) \cap DOMAIN name_to_id # {}
    /\ pc' = "raised"
    /\ UNCHANGED <<saveVars, variant, rosterVars, textVars, compareVars,
                   fetchVars, batchVars, artifact, loaded>>

(* the key order of the roster: a name takes its place when it is first  *)
(* inserted                                                               *)
roster_order ==
    normalized_order(SelectSeq(group_names, LAMBDA n : n \in DOMAIN name_to_id), <<>>)

(* main: "if not previous": first run, the roster is saved and main       *)
(* returns                                                                *)
FirstRun ==
    /\ pc = "fetched"
    /\ previous = EmptyDict
    /\ dest' = save_current_snapshot(current, roster_order)
    /\ pc' = "first_run"
    /\ UNCHANGED <<reloaded, emitted, exit_code, env, steps, run_no, variant, rosterVars, textVars,
                   compareVars, fetchVars, batchVars, artifact, loaded>>

(* main: compare_snapshots(current, previous), save_current_snapshot,     *)
(* then comparison_result.json, the HTML report, the PDF report and the   *)
(* mail, every step succeeding                                            *)
CompareWithPrevious ==
    /\ pc = "fetched"
    /\ previous # EmptyDict
    /\ \E order \in Orderings(DOMAIN current \cup DOMAIN previous) :
            result' = compare_snapshots(current, previous, order)
    /\ dest' = save_current_snapshot(current, roster_order)
    /\ emitted' = {"comparison_result", "html_report", "pdf_report", "email"}
    /\ pc' = "compared"
    /\ UNCHANGED <<reloaded, exit_code, env, steps, run_no, variant, rosterVars, textVars, current, previous,
                   fetchVars, batchVars, artifact, loaded>>

NextRoster ==
    \/ GetGroupIdsFromNames
    \/ FetchAllMembers
    \/ RosterRequestFails
    \/ FirstRun
    \/ CompareWithPrevious

SpecRoster == InitRoster /\ [][NextRoster]_vars

--------------------------------------------------------------------------
(* pipeline.py: main and GroupMembershipPipeline.run, one action per step *)
(* of run and one per step that can raise.                                *)

required_vars == {"TENANT_ID", "CLIENT_ID", "CLIENT_SECRET", "GROUP_ID", "GROUP_NAME"}

changes_detected_new_only(new_members, removed_members) == Len(new_members) > 0

(* len(new_members) > 0 or len(removed_members) > 0 *)
changes_detected(new_members, removed_members) ==
    Len(new_members) > 0 \/ Len(removed_members) > 0

(* the task.setvariable line run prints for ChangesDetected *)
ChangesDetectedLine(flag) ==
    IF flag THEN "ChangesDetected=true" ELSE "ChangesDetected=false"

(* run's "except Exception": the error is logged and raised again; main's *)
(* "except Exception" prints it and calls sys.exit(2)                     *)
RunRaised == emitted \cup {"logissue", "fatal_error"}

InitPipeline ==
    /\ pc = "start"
    /\ variant = "pipeline"
    /\ env \in {required_vars, required_vars \ {"GROUP_ID"}, {}}
    /\ artifact \in BadFiles(<<>>) \cup MemberFiles
    /\ dest = artifact
    /\ current = <<>> /\ previous = <<>> /\ result = <<>>
    /\ loaded = <<>> /\ reloaded = <<>>
    /\ emitted = {}
    /\ exit_code = -1
    /\ steps = <<>>
    /\ run_no = 1
    /\ group_names = <<>> /\ directory = {} /\ name_to_id = <<>>
    /\ TextIdle /\ FetchIdle /\ BatchIdle

(* GroupMembershipPipeline(): load_config_from_env finds every variable *)
MainConfigured ==
    /\ pc = "start"
    /\ variant = "pipeline"
    /\ required_vars \subseteq env
    /\ pc' = "configured"
    /\ UNCHANGED <<variant, saveVars, loadVars, rosterVars, textVars, compareVars,
                   fetchVars, batchVars>>

(* load_config_from_env raises ValueError: main prints it and exits *)
MainConfigRaises ==
    /\ pc = "start"
    /\ variant = "pipeline"
    /\ ~(required_vars \subseteq env)
    /\ emitted' = emitted \cup {"fatal_error"}
    /\ exit_code' = 2
    /\ pc' = "exited"
    /\ UNCHANGED <<variant, dest, reloaded, env, steps, run_no, loadVars, rosterVars, textVars,
                   compareVars, fetchVars, batchVars>>

(* step 1: get_group_members returns the current members *)
RunFetch ==
    /\ pc = "configured"
    /\ variant = "pipeline"
    /\ \E ms \in MemberLists : current' = ms
    /\ pc' = "fetched"
    /\ steps' = Append(steps, "fetch")
    /\ UNCHANGED <<variant, dest, reloaded, emitted, exit_code, env, run_no, loadVars, rosterVars, textVars, previous, result,
                   fetchVars, batchVars>>

(* step 1: the token or a page request fails *)
RunFetchRaises ==
    /\ pc = "configured"
    /\ variant = "pipeline"
    /\ emitted' = RunRaised
    /\ exit_code' = 2
    /\ pc' = "exited"
    /\ steps' = Append(steps, "fetch")
    /\ UNCHANGED <<variant, dest, reloaded, env, run_no, loadVars, rosterVars, textVars,
                   compareVars, fetchVars, batchVars>>

(* step 2: load_previous_members returns *)
RunLoad ==
    /\ pc = "fetched"
    /\ variant = "pipeline"
    /\ load_previous_members(dest).outcome = "returned"
    /\ loaded' = load_previous_members(dest)
    /\ previous' = load_previous_members(dest).value
    /\ pc' = "loaded"
    /\ steps' = Append(steps, "load")
    /\ UNCHANGED <<variant, dest, reloaded, emitted, exit_code, env, run_no, artifact, rosterVars, textVars, current, result,
                   fetchVars, batchVars>>

(* step 2: load_previous_members raises *)
RunLoadRaises ==
    /\ pc = "fetched"
    /\ variant = "pipeline"
    /\ load_previous_members(dest).outcome = "raised"
    /\ loaded' = load_previous_members(dest)
    /\ emitted' = RunRaised
    /\ exit_code' = 2
    /\ pc' = "exited"
    /\ steps' = Append(steps, "load")
    /\ UNCHANGED <<variant, dest, reloaded, env, run_no, artifact, rosterVars, textVars,
                   compareVars, fetchVars, batchVars>>

(* step 3: compare_memberships, then the output variables are printed *)
RunCompare ==
    /\ pc = "loaded"
    /\ variant = "pipeline"
    /\ LET current_ids == Ids(current)
           previous_ids == Ids(previous)
       IN  \E o_new \in Orderings(current_ids \ previous_ids),
              o_removed \in Orderings(previous_ids \ current_ids),
              o_unchanged \in Orderings(current_ids \cap previous_ids) :
                LET r == compare_memberships(current, previous,
                                             o_new, o_removed, o_unchanged)
                IN  /\ result' = r
                    /\ emitted' = emitted \cup
                        {ChangesDetectedLine(changes_detected(r.new_members,
                                                              r.removed_members))}
    /\ pc' = "compared"
    /\ steps' = steps \o <<"compare", "notify">>
    /\ UNCHANGED <<variant, dest, reloaded, exit_code, env, run_no, loadVars, rosterVars, textVars,
                   current, previous, fetchVars, batchVars>>

(* step 4: the PDF report is written *)
RunReport ==
    /\ pc = "compared"
    /\ variant = "pipeline"
    /\ emitted' = emitted \cup {"pdf_report"}
    /\ pc' = "reported"
    /\ steps' = Append(steps, "report")
    /\ UNCHANGED <<variant, dest, reloaded, exit_code, env, run_no, loadVars, rosterVars, textVars,
                   compareVars, fetchVars, batchVars>>

(* step 4: generate_report raises *)
RunReportRaises ==
    /\ pc = "compared"
    /\ variant = "pipeline"
    /\ emitted' = RunRaised
    /\ exit_code' = 2
    /\ pc' = "exited"
    /\ steps' = Append(steps, "report")
    /\ UNCHANGED <<variant, dest, reloaded, env, run_no, loadVars, rosterVars, textVars,
                   compareVars, fetchVars, batchVars>>

(* step 5: save_current_members *)
RunSave ==
    /\ pc = "reported"
    /\ variant = "pipeline"
    /\ dest' = save_current_members(current)
    /\ pc' = "saved"
    /\ steps' = Append(steps, "save")
    /\ UNCHANGED <<variant, reloaded, emitted, exit_code, env, run_no, loadVars, rosterVars,
                   textVars, compareVars, fetchVars, batchVars>>

(* step 5: open() raises (the file is left as it was) or json.dump raises *)
(* (the file is left truncated)                                           *)
RunSaveRaises ==
    /\ pc = "reported"
    /\ variant = "pipeline"
    /\ dest' \in {dest, TruncatedFile}
    /\ emitted' = RunRaised
    /\ exit_code' = 2
    /\ pc' = "exited"
    /\ steps' = Append(steps, "save")
    /\ UNCHANGED <<variant, reloaded, env, run_no, loadVars, rosterVars, textVars,
                   compareVars, fetchVars, batchVars>>

(* "return 0 if not changes_detected else 1", then main's sys.exit *)
MainExit ==
    /\ pc = "saved"
    /\ variant = "pipeline"
    /\ exit_code' = IF ~changes_detected(result.new_members, result.removed_members)
                    THEN 0 ELSE 1
    /\ pc' = "exited"
    /\ UNCHANGED <<variant, dest, reloaded, emitted, env, steps, run_no, loadVars, rosterVars, textVars,
                   compareVars, fetchVars, batchVars>>

NextPipeline ==
    \/ MainConfigured
    \/ MainConfigRaises
    \/ RunFetch
    \/ RunFetchRaises
    \/ RunLoad
    \/ RunLoadRaises
    \/ RunCompare
    \/ RunReport
    \/ RunReportRaises
    \/ RunSave
    \/ RunSaveRaises
    \/ MainExit

SpecPipeline == InitPipeline /\ [][NextPipeline]_vars

--------------------------------------------------------------------------
(* Critical_group_report.py main, step by step, over two consecutive runs *)
(* against the same directory and the same list of names: the file one    *)
(* run saves is the artifact the next run loads.                          *)

(* a member whose display name carries a space and a byte-order mark,     *)
(* twice over                                                             *)
UserMarked == [id |-> <<LE, LA>>, displayName |-> <<SP, BOM, SP, BOM, LA>>, type |-> "user"]

MainChains ==
    {<<[value |-> <<>>, next |-> 0]>>,
     <<[value |-> <<UserNamed>>, next |-> 0]>>,
     <<[value |-> <<UserNamed>>, next |-> 2], [value |-> <<UserMarked>>, next |-> 0]>>}

(* The artifact the first run may find: none, an empty mapping, the       *)
(* snapshot of an earlier run, or a file that is no JSON.                 *)
MainArtifacts ==
    {MissingFile,
     JsonFile(EmptyDict, <<>>),
     EarlierFile,
     [state |-> "invalid_json", data |-> <<>>, order |-> <<>>]}

InitMain ==
    /\ pc = "start"
    /\ variant = "critical"
    /\ run_no = 1
    /\ steps = <<>>
    /\ group_names \in SeqsUpTo(GroupPool, MaxNames)
    /\ directory \in SUBSET GroupPool
    /\ pages \in [{Gid(g) : g \in directory} -> MainChains]
    /\ artifact \in MainArtifacts
    /\ dest = MissingFile
    /\ name_to_id = EmptyDict
    /\ current = EmptyDict /\ previous = EmptyDict /\ result = <<>>
    /\ loaded = <<>> /\ reloaded = <<>>
    /\ emitted = {} /\ exit_code = -1 /\ env = {}
    /\ group_id = <<>> /\ url = 0 /\ members = <<>> /\ requested = <<>>
    /\ TextIdle /\ BatchIdle

(* get_all_group_members, steps 1 and 2: the names are resolved *)
MainResolve ==
    /\ pc = "start"
    /\ variant = "critical"
    /\ name_to_id' = resolve_names(group_names, EmptyDict)
    /\ pc' = "resolved"
    /\ UNCHANGED <<variant, group_names, directory, saveVars, textVars, compareVars,
                   fetchVars, batchVars, loadVars>>

(* get_all_group_members, step 3: the members of every resolved group *)
MainFetch ==
    /\ pc = "resolved"
    /\ variant = "critical"
    /\ current' = roster_loop(group_names, EmptyDict)
    /\ steps' = Append(steps, "fetch")
    /\ pc' = "fetched"
    /\ UNCHANGED <<variant, rosterVars, dest, reloaded, emitted, exit_code, env, run_no,
                   textVars, previous, result, fetchVars, batchVars, loadVars>>

(* previous = load_previous_snapshot() *)
MainLoad ==
    /\ pc = "fetched"
    /\ variant = "critical"
    /\ load_previous_snapshot(artifact).outcome = "returned"
    /\ loaded' = load_previous_snapshot(artifact)
    /\ previous' = load_previous_snapshot(artifact).value
    /\ steps' = Append(steps, "load")
    /\ pc' = "loaded"
    /\ UNCHANGED <<variant, rosterVars, dest, reloaded, emitted, exit_code, env, run_no,
                   textVars, current, result, fetchVars, batchVars, artifact>>

(* json.load raises out of load_previous_snapshot and main *)
MainLoadRaises ==
    /\ pc = "fetched"
    /\ variant = "critical"
    /\ load_previous_snapshot(artifact).outcome = "raised"
    /\ loaded' = load_previous_snapshot(artifact)
    /\ steps' = Append(steps, "load")
    /\ pc' = "raised"
    /\ UNCHANGED <<variant, rosterVars, dest, reloaded, emitted, exit_code, env, run_no,
                   textVars, compareVars, fetchVars, batchVars, artifact>>

first_run_if_missing(prev, file) == file.state = "missing"

(* "if not previous" *)
first_run(prev, file) == prev = EmptyDict

(* the first-run branch: save_current_snapshot(current); return *)
MainFirstRun ==
    /\ pc = "loaded"
    /\ variant = "critical"
    /\ first_run(previous, artifact)
    /\ dest' = save_current_snapshot(current, roster_order)
    /\ steps' = Append(steps, "save")
    /\ pc' = "first_run"
    /\ UNCHANGED <<variant, rosterVars, reloaded, emitted, exit_code, env, run_no,
                   textVars, compareVars, fetchVars, batchVars, loadVars>>

(* compare_snapshots(current, previous) *)
MainCompare ==
    /\ pc = "loaded"
    /\ variant = "critical"
    /\ ~first_run(previous, artifact)
    /\ \E order \in Orderings(DOMAIN current \cup DOMAIN previous) :
            result' = compare_snapshots(current, previous, order)
    /\ steps' = Append(steps, "compare")
    /\ pc' = "compared"
    /\ UNCHANGED <<variant, rosterVars, dest, reloaded, emitted, exit_code, env, run_no,
                   textVars, current, previous, fetchVars, batchVars, loadVars>>

(* save_current_snapshot(current), the statement after the comparison *)
MainSave ==
    /\ pc = "compared"
    /\ variant = "critical"
    /\ dest' = save_current_snapshot(current, roster_order)
    /\ steps' = Append(steps, "save")
    /\ pc' = "saved"
    /\ UNCHANGED <<variant, rosterVars, reloaded, emitted, exit_code, env, run_no,
                   textVars, compareVars, fetchVars, batchVars, loadVars>>

main_report_steps_resaved == <<"comparison_result", "report", "notify", "save">>

(* what main does after the save: comparison_result.json, the HTML and    *)
(* PDF reports, send_email                                                *)
main_report_steps == <<"comparison_result", "report", "notify">>

(* comparison_result.json, the HTML report, the PDF report and the mail *)
MainReport ==
    /\ pc = "saved"
    /\ variant = "critical"
    /\ emitted' = {"comparison_result", "html_report", "pdf_report", "email"}
    /\ steps' = steps \o main_report_steps
    /\ pc' = "done"
    /\ UNCHANGED <<variant, rosterVars, dest, reloaded, exit_code, env, run_no,
                   textVars, compareVars, fetchVars, batchVars, loadVars>>

(* the next run starts: it finds the file the last run saved, the same    *)
(* names and the same directory                                           *)
NextRun ==
    /\ pc \in {"first_run", "done"}
    /\ variant = "critical"
    /\ run_no = 1
    /\ run_no' = 2
    /\ artifact' = dest
    /\ dest' = MissingFile
    /\ name_to_id' = EmptyDict
    /\ current' = EmptyDict /\ previous' = EmptyDict /\ result' = <<>>
    /\ loaded' = <<>>
    /\ emitted' = {}
    /\ steps' = <<>>
    /\ pc' = "start"
    /\ UNCHANGED <<variant, group_names, directory, reloaded, exit_code, env,
                   textVars, fetchVars, batchVars>>

NextMain ==
    \/ MainResolve
    \/ MainFetch
    \/ MainLoad
    \/ MainLoadRaises
    \/ MainFirstRun
    \/ MainCompare
    \/ MainSave
    \/ MainReport
    \/ NextRun

SpecMain == InitMain /\ [][NextMain]_vars

--------------------------------------------------------------------------
(* get_test_with_updates_test.py main, step by step.                      *)

(* generate_snapshot: the comparison of get_test_with_sort.py with the    *)
(* size of the current member set beside each delta                       *)
generate_snapshot(cur, prev, order) ==
    LET r == compare_snapshots_sort(cur, prev, order)
    IN  [r EXCEPT !.result =
            [g \in DOMAIN r.result |->
                [added |-> r.result[g].added,
                 removed |-> r.result[g].removed,
                 unchanged |-> r.result[g].unchanged,
                 total_members |-> Cardinality(ToSet(GetOrEmpty(cur, g)))]]]

UpdatesArtifacts ==
    {MissingFile,
     [state |-> "invalid_json", data |-> <<>>, order |-> <<>>],
     EarlierFile,
     JsonFile((<<LA>> :> << <<LA>> >>), << <<LA>> >>)}

InitUpdates ==
    /\ pc = "start"
    /\ variant = "updates_test"
    /\ run_no = 1
    /\ steps = <<>>
    /\ artifact \in UpdatesArtifacts
    /\ dest = MissingFile
    /\ current = EmptyDict /\ previous = EmptyDict /\ result = <<>>
    /\ loaded = <<>> /\ reloaded = <<>>
    /\ emitted = {} /\ exit_code = -1 /\ env = {}
    /\ group_names = <<>> /\ directory = {} /\ name_to_id = <<>>
    /\ TextIdle /\ FetchIdle /\ BatchIdle

(* step 1: get_all_group_members returns *)
UpdatesFetch ==
    /\ pc = "start"
    /\ variant = "updates_test"
    /\ \E roster \in Rosters : current' = roster
    /\ steps' = Append(steps, "fetch")
    /\ pc' = "fetched"
    /\ UNCHANGED <<variant, rosterVars, dest, reloaded, emitted, exit_code, env, run_no,
                   textVars, previous, result, fetchVars, batchVars, loadVars>>

(* step 2: load_previous_snapshot *)
UpdatesLoad ==
    /\ pc = "fetched"
    /\ variant = "updates_test"
    /\ loaded' = load_previous_snapshot_test(artifact)
    /\ previous' = load_previous_snapshot_test(artifact).value
    /\ steps' = Append(steps, "load")
    /\ pc' = "loaded"
    /\ UNCHANGED <<variant, rosterVars, dest, reloaded, emitted, exit_code, env, run_no,
                   textVars, current, result, fetchVars, batchVars, artifact>>

(* step 3: generate_snapshot(current, previous) *)
UpdatesGenerate ==
    /\ pc = "loaded"
    /\ variant = "updates_test"
    /\ \E order \in Orderings(DOMAIN current \cup DOMAIN previous) :
            result' = generate_snapshot(current, previous, order)
    /\ steps' = Append(steps, "compare")
    /\ pc' = "compared"
    /\ UNCHANGED <<variant, rosterVars, dest, reloaded, emitted, exit_code, env, run_no,
                   textVars, current, previous, fetchVars, batchVars, loadVars>>

(* step 4: the snapshot file, the report and the raw data are written *)
UpdatesReport ==
    /\ pc = "compared"
    /\ variant = "updates_test"
    /\ emitted' = emitted \cup {"group_snapshot", "group_report", "raw_group_data"}
    /\ steps' = steps \o <<"comparison_result", "report">>
    /\ pc' = "reported"
    /\ UNCHANGED <<variant, rosterVars, dest, reloaded, exit_code, env, run_no,
                   textVars, compareVars, fetchVars, batchVars, loadVars>>

(* step 5: save_current_as_previous(current, artifacts_dir) *)
UpdatesSave ==
    /\ pc = "reported"
    /\ variant = "updates_test"
    /\ \E order \in Orderings(DOMAIN current) :
            dest' = save_current_as_previous(current, order)
    /\ steps' = Append(steps, "save")
    /\ pc' = "saved"
    /\ UNCHANGED <<variant, rosterVars, reloaded, emitted, exit_code, env, run_no,
                   textVars, compareVars, fetchVars, batchVars, loadVars>>

(* step 6, no change: both variables are printed and main returns *)
UpdatesNoChange ==
    /\ pc = "saved"
    /\ variant = "updates_test"
    /\ ~result.changes_detected
    /\ emitted' = emitted \cup {"GroupChangesDetected=false", "GroupsChanged"}
    /\ steps' = Append(steps, "notify")
    /\ pc' = "done"
    /\ UNCHANGED <<variant, rosterVars, dest, reloaded, exit_code, env, run_no,
                   textVars, compareVars, fetchVars, batchVars, loadVars>>

(* step 6, changes: GroupChangesDetected is printed; formatting the next  *)
(* line reads groups_with_changes, a local of generate_comparison_report  *)
(* and no name of main: NameError, which the "except Exception" of main   *)
(* logs and raises again                                                  *)
UpdatesChangeRaises ==
    /\ pc = "saved"
    /\ variant = "updates_test"
    /\ result.changes_detected
    /\ emitted' = emitted \cup {"GroupChangesDetected=true", "logissue"}
    /\ steps' = Append(steps, "notify")
    /\ pc' = "raised"
    /\ UNCHANGED <<variant, rosterVars, dest, reloaded, exit_code, env, run_no,
                   textVars, compareVars, fetchVars, batchVars, loadVars>>

NextUpdates ==
    \/ UpdatesFetch
    \/ UpdatesLoad
    \/ UpdatesGenerate
    \/ UpdatesReport
    \/ UpdatesSave
    \/ UpdatesNoChange
    \/ UpdatesChangeRaises

SpecUpdates == InitUpdates /\ [][NextUpdates]_vars

--------------------------------------------------------------------------
(* get_test_with_sort.py main, step by step, over consecutive runs on a   *)
(* directory whose groups and memberships stay the same: only the set of  *)
(* sub-requests that fail differs from run to run.                        *)
MaxRunGroups == 2   \* most groups of the directory the runs read
MaxRuns == 3        \* most consecutive runs

(* The loop of get_all_group_members from its k-th iteration on. *)
RECURSIVE get_all_group_members_loop(_, _, _, _, _)
get_all_group_members_loop(all_groups, k, reqs, counter, roster) ==
    IF k > Len(all_groups) THEN roster
    ELSE LET appended == Append(reqs, [id |-> str(counter), url |-> all_groups[k].id])
             results == [j \in DOMAIN appended |-> SubResponse(appended[j])]
         IN  IF flush_due(appended, all_groups[k], all_groups)
             THEN get_all_group_members_loop(all_groups, k + 1, <<>>, counter + 1,
                        process_results(all_groups, results, roster))
             ELSE get_all_group_members_loop(all_groups, k + 1, appended, counter + 1,
                        roster)

(* get_test_with_sort.py get_all_group_members, every batch call          *)
(* answering 200                                                          *)
get_all_group_members(all_groups) ==
    get_all_group_members_loop(all_groups, 1, <<>>, 1, EmptyDict)

(* the keys of a fetched roster in dict order *)
fetched_order(roster) ==
    SelectSeq([k \in DOMAIN groups |-> groups[k].displayName],
              LAMBDA n : n \in DOMAIN roster)

(* get_test_with_sort.py load_previous_snapshot: json.load without a      *)
(* try                                                                    *)
load_previous_snapshot_sort(file) ==
    IF file.state = "missing" THEN Returned(EmptyDict)
    ELSE IF file.state \in {"unreadable", "invalid_json"} THEN Raised
    ELSE Returned(file.data)

FailedSets ==
    {F \in SUBSET {groups[k].id : k \in DOMAIN groups} : Cardinality(F) <= MaxFailed}

InitSort ==
    /\ pc = "start"
    /\ variant = "sort"
    /\ run_no = 1
    /\ \E n \in 0..MaxRunGroups : groups = GroupList(n)
    /\ svc_failed \in FailedSets
    /\ done = 0 /\ batch_requests = <<>> /\ batch_counter = 1
    /\ group_members = EmptyDict /\ sent = <<>>
    /\ artifact \in {MissingFile, TruncatedFile}
    /\ loaded = <<>>
    /\ current = EmptyDict /\ previous = EmptyDict /\ result = <<>>
    /\ dest = MissingFile
    /\ reloaded = <<>> /\ emitted = {} /\ exit_code = -1 /\ env = {}
    /\ steps = <<>>
    /\ group_names = <<>> /\ directory = {} /\ name_to_id = <<>>
    /\ TextIdle /\ FetchIdle

(* current = get_all_group_members() *)
SortFetch ==
    /\ pc = "start"
    /\ variant = "sort"
    /\ current' = get_all_group_members(groups)
    /\ group_members' = get_all_group_members(groups)
    /\ steps' = Append(steps, "fetch")
    /\ pc' = "fetched"
    /\ UNCHANGED <<variant, groups, svc_failed, done, batch_requests, batch_counter, sent,
                   previous, result, dest, reloaded, emitted, exit_code, env, run_no,
                   textVars, fetchVars, loadVars, rosterVars>>

(* a batch call answers with an error status and raise_for_status()      *)
(* raises out of main                                                     *)
SortFetchRaises ==
    /\ pc = "start"
    /\ variant = "sort"
    /\ groups # <<>>
    /\ steps' = Append(steps, "fetch")
    /\ pc' = "raised"
    /\ UNCHANGED <<variant, batchVars, compareVars, dest, reloaded, emitted, exit_code,
                   env, run_no, textVars, fetchVars, loadVars, rosterVars>>

(* previous = load_previous_snapshot() *)
SortLoad ==
    /\ pc = "fetched"
    /\ variant = "sort"
    /\ load_previous_snapshot_sort(artifact).outcome = "returned"
    /\ loaded' = load_previous_snapshot_sort(artifact)
    /\ previous' = load_previous_snapshot_sort(artifact).value
    /\ steps' = Append(steps, "load")
    /\ pc' = "loaded"
    /\ UNCHANGED <<variant, batchVars, current, result, dest, reloaded, emitted,
                   exit_code, env, run_no, textVars, fetchVars, artifact, rosterVars>>

(* json.load raises out of load_previous_snapshot and main *)
SortLoadRaises ==
    /\ pc = "fetched"
    /\ variant = "sort"
    /\ load_previous_snapshot_sort(artifact).outcome = "raised"
    /\ loaded' = load_previous_snapshot_sort(artifact)
    /\ steps' = Append(steps, "load")
    /\ pc' = "raised"
    /\ UNCHANGED <<variant, batchVars, compareVars, dest, reloaded, emitted,
                   exit_code, env, run_no, textVars, fetchVars, artifact, rosterVars>>

(* "if not previous": save_current_snapshot(current); return *)
SortFirstRun ==
    /\ pc = "loaded"
    /\ variant = "sort"
    /\ first_run(previous, artifact)
    /\ dest' = save_current_as_previous(current, fetched_order(current))
    /\ steps' = Append(steps, "save")
    /\ pc' = "first_run"
    /\ UNCHANGED <<variant, batchVars, compareVars, reloaded, emitted, exit_code, env,
                   run_no, textVars, fetchVars, loadVars, rosterVars>>

(* snapshot, changes = compare_snapshots(current, previous) *)
SortCompare ==
    /\ pc = "loaded"
    /\ variant = "sort"
    /\ ~first_run(previous, artifact)
    /\ \E order \in Orderings(DOMAIN current \cup DOMAIN previous) :
            result' = compare_snapshots_sort(current, previous, order)
    /\ steps' = Append(steps, "compare")
    /\ pc' = "compared"
    /\ UNCHANGED <<variant, batchVars, current, previous, dest, reloaded, emitted,
                   exit_code, env, run_no, textVars, fetchVars, loadVars, rosterVars>>

(* save_current_snapshot(current), the statement after the comparison *)
SortSave ==
    /\ pc = "compared"
    /\ variant = "sort"
    /\ dest' = save_current_as_previous(current, fetched_order(current))
    /\ steps' = Append(steps, "save")
    /\ pc' = "saved"
    /\ UNCHANGED <<variant, batchVars, compareVars, reloaded, emitted, exit_code, env,
                   run_no, textVars, fetchVars, loadVars, rosterVars>>

(* comparison_result.json and the HTML report *)
SortReport ==
    /\ pc = "saved"
    /\ variant = "sort"
    /\ emitted' = {"comparison_result", "html_report"}
    /\ steps' = steps \o <<"comparison_result", "report">>
    /\ pc' = "done"
    /\ UNCHANGED <<variant, batchVars, compareVars, dest, reloaded, exit_code, env,
                   run_no, textVars, fetchVars, loadVars, rosterVars>>

(* the next run starts: it finds the file the last run saved and the same *)
(* directory; the sub-requests that fail are those of this run            *)
SortNextRun ==
    /\ pc \in {"first_run", "done"}
    /\ variant = "sort"
    /\ run_no < MaxRuns
    /\ run_no' = run_no + 1
    /\ svc_failed' \in FailedSets
    /\ artifact' = dest
    /\ dest' = MissingFile
    /\ group_members' = EmptyDict
    /\ current' = EmptyDict /\ previous' = EmptyDict /\ result' = <<>>
    /\ loaded' = <<>>
    /\ emitted' = {}
    /\ steps' = <<>>
    /\ pc' = "start"
    /\ UNCHANGED <<variant, groups, done, batch_requests, batch_counter, sent,
                   reloaded, exit_code, env, textVars, fetchVars, rosterVars>>

NextSort ==
    \/ SortFetch
    \/ SortFetchRaises
    \/ SortLoad
    \/ SortLoadRaises
    \/ SortFirstRun
    \/ SortCompare
    \/ SortSave
    \/ SortReport
    \/ SortNextRun

SpecSort == InitSort /\ [][NextSort]_vars

(* main of Critical_group_report.py and main of get_test_with_sort.py,    *)
(* the two entry points with a first-run branch.                          *)
InitMains == InitMain \/ InitSort

NextMains == NextMain \/ NextSort

SpecMains == InitMains /\ [][NextMains]_vars

--------------------------------------------------------------------------
(* The runs of the three entry points together.                           *)
InitRuns == InitMain \/ InitUpdates \/ InitPipeline

NextRuns == NextMain \/ NextUpdates \/ NextPipeline

SpecRuns == InitRuns /\ [][NextRuns]_vars

--------------------------------------------------------------------------
(* Properties of the comparison.                                          *)

AsSets(roster) == [g \in DOMAIN roster |-> ToSet(roster[g])]

NoRepeat(q) == \A i, j \in DOMAIN q : i # j => q[i] # q[j]

(* C1: in the result of a comparison, for every group, added and removed  *)
(* are disjoint, added with unchanged is the group's current member set   *)
(* and removed with unchanged its previous member set (empty when the     *)
(* group is absent on that side); for compare_memberships the same holds  *)
(* of the ids of the three returned lists.                                *)
C1_DeltaPartition ==
    pc = "compared" =>
        IF variant = "pipeline"
        THEN LET A == Ids(result.new_members)
                 R == Ids(result.removed_members)
                 U == Ids(result.unchanged_members)
             IN  /\ A \cap R = {}
                 /\ A \cup U = Ids(current)
                 /\ R \cup U = Ids(previous)
        ELSE \A g \in DOMAIN result.result :
                LET A == ToSet(result.result[g].added)
                    R == ToSet(result.result[g].removed)
                    U == ToSet(result.result[g].unchanged)
                IN  /\ A \cap R = {}
                    /\ A \cup U = ToSet(GetOrEmpty(current, g))
                    /\ R \cup U = ToSet(GetOrEmpty(previous, g))

C1_Witness ==
    /\ pc = "compared"
    /\ variant = "critical"
    /\ \E g, h \in DOMAIN result.result :
            /\ result.result[g].added # <<>>
            /\ result.result[g].unchanged # <<>>
            /\ result.result[h].removed # <<>>
            /\ result.result[h].unchanged # <<>>

(* C2: compare_snapshots of Critical_group_report.py returns              *)
(* changes_detected = TRUE exactly when current and previous differ as    *)
(* mappings from group name to member set.                                *)
C2_ChangesIffDifferent ==
    (pc = "compared" /\ variant = "critical") =>
        (result.changes_detected <=> AsSets(current) # AsSets(previous))

(* Two rosters that differ as lists but not as sets: no change reported.  *)
C2_Witness ==
    /\ pc = "compared"
    /\ variant = "critical"
    /\ current # previous
    /\ DOMAIN current # {}
    /\ ~result.changes_detected

(* C3: the result has exactly the keys of current and previous together;  *)
(* added_groups holds exactly the groups only in current, deleted_groups  *)
(* exactly the groups only in previous, each once.                        *)
C3_KeysAndGroupLists ==
    (pc = "compared" /\ variant = "critical") =>
        /\ DOMAIN result.result = DOMAIN current \cup DOMAIN previous
        /\ ToSet(result.added_groups) = DOMAIN current \ DOMAIN previous
        /\ ToSet(result.deleted_groups) = DOMAIN previous \ DOMAIN current
        /\ NoRepeat(result.added_groups)
        /\ NoRepeat(result.deleted_groups)

(* Rosters that share no group. *)
C3_Witness ==
    /\ pc = "compared"
    /\ variant = "critical"
    /\ DOMAIN current # {}
    /\ DOMAIN previous # {}
    /\ DOMAIN current \cap DOMAIN previous = {}
    /\ ToSet(result.added_groups) = DOMAIN current
    /\ ToSet(result.deleted_groups) = DOMAIN previous

--------------------------------------------------------------------------
(* Properties of the normaliser.                                          *)

(* C5: clean_text is idempotent: cleaning a cleaned string changes        *)
(* nothing.                                                               *)
C5_Idempotent == pc = "twice" => recleaned = cleaned

--------------------------------------------------------------------------
(* Properties of the single-group fetch.                                  *)

(* The pages reached from page k by following the continuation links.     *)
RECURSIVE ChainFrom(_, _)
ChainFrom(c, k) == IF k = 0 THEN <<>> ELSE <<k>> \o ChainFrom(c, c[k].next)

(* The records of the pages of a path, in order.                          *)
RECURSIVE RecordsAlong(_, _)
RecordsAlong(c, path) ==
    IF path = <<>> THEN <<>>
    ELSE c[Head(path)].value \o RecordsAlong(c, Tail(path))

IsUser(r) == r.type = "user"

ChainRecords == RecordsAlong(pages[group_id], ChainFrom(pages[group_id], 1))

(* C6 as stated: every page of the chain is requested in order and none   *)
(* after it, and the returned list holds the identifier of every record   *)
(* of every page.                                                         *)
C6_AllRecordsOfAllPages ==
    pc = "returned" =>
        /\ requested = ChainFrom(pages[group_id], 1)
        /\ Len(members) = Len(ChainRecords)
        /\ \A k \in DOMAIN members :
                IF variant = "critical"
                THEN members[k] = clean_text(IF ChainRecords[k].displayName # <<>>
                                             THEN ChainRecords[k].displayName
                                             ELSE ChainRecords[k].id)
                ELSE members[k].id = ChainRecords[k].id

(* C6 amended: the pages are requested as stated; fetch_group_members     *)
(* returns one label per record of every page, get_group_members one      *)
(* member per user record of every page (records of another type are      *)
(* dropped).                                                              *)
C6_AllPagesFollowed ==
    pc = "returned" =>
        /\ requested = ChainFrom(pages[group_id], 1)
        /\ LET want == IF variant = "critical" THEN ChainRecords
                       ELSE SelectSeq(ChainRecords, IsUser)
           IN  /\ Len(members) = Len(want)
               /\ \A k \in DOMAIN members :
                    IF variant = "critical"
                    THEN members[k] = clean_text(IF want[k].displayName # <<>>
                                                 THEN want[k].displayName
                                                 ELSE want[k].id)
                    ELSE members[k].id = want[k].id

(* A chain of three pages whose last page contributes a member.           *)
C6_Witness ==
    /\ pc = "returned"
    /\ Len(requested) >= 3
    /\ pages[group_id][requested[1]].value = <<>>
    /\ pages[group_id][requested[3]].value # <<>>
    /\ members # <<>>

--------------------------------------------------------------------------
(* Properties of the batched fetch.                                       *)

(* The places (batch call, position) that carry the member request of     *)
(* the group with id gid.                                                 *)
Carriers(gid) ==
    {bp \in UNION {{<<b, q>> : q \in DOMAIN sent[b].requests} : b \in DOMAIN sent} :
        sent[bp[1]].requests[bp[2]].url = gid}

(* C7: a failed sub-request neither aborts the batch nor raises: its      *)
(* group is absent from the returned roster, and every other group whose  *)
(* batch call was answered is present with its members.  Only a failure   *)
(* of the batch call itself raises.                                       *)
C7_SubFailureIsolated ==
    /\ pc = "returned" =>
            \A k \in DOMAIN groups :
                IF groups[k].id \in svc_failed
                THEN groups[k].displayName \notin DOMAIN group_members
                ELSE (\E bp \in Carriers(groups[k].id) : sent[bp[1]].status = 200) =>
                        /\ groups[k].displayName \in DOMAIN group_members
                        /\ group_members[groups[k].displayName]
                                = ServiceMembers(groups[k].id)
    /\ pc = "raised" => (variant = "sort" /\ sent[Len(sent)].status # 200)

(* A failing group in the first of two batches; every other group is in   *)
(* the roster.                                                            *)
C7_Witness ==
    /\ pc = "returned"
    /\ Len(groups) > batch_size
    /\ \E k \in 1..batch_size : svc_failed = {groups[k].id}
    /\ Cardinality(DOMAIN group_members) = Len(groups) - 1

(* C8: every batch call carries between 1 and 20 sub-requests, and when   *)
(* the function returns every group's request was carried exactly once;   *)
(* no groups, no batch call.                                              *)
C8_BatchSizes ==
    /\ \A b \in DOMAIN sent :
            Len(sent[b].requests) >= 1 /\ Len(sent[b].requests) <= batch_size
    /\ pc = "returned" =>
            /\ \A k \in DOMAIN groups : Cardinality(Carriers(groups[k].id)) = 1
            /\ groups = <<>> => sent = <<>>

(* 21 groups: a full batch, then a batch of one. *)
C8_Witness ==
    /\ pc = "returned"
    /\ Len(groups) = batch_size + 1
    /\ Len(sent) = 2
    /\ Len(sent[1].requests) = batch_size
    /\ Len(sent[2].requests) = 1

(* C9: whatever the roster holds under a group's name is the member list  *)
(* the service returned for that group's own sub-request.                 *)
C9_AttributedById ==
    \A name \in DOMAIN group_members :
        \E k \in DOMAIN groups :
            /\ groups[k].displayName = name
            /\ groups[k].id \notin svc_failed
            /\ group_members[name] = ServiceMembers(groups[k].id)

(* The second batch was answered in reverse order and all groups are in   *)
(* the roster.                                                            *)
C9_Witness ==
    /\ pc = "returned"
    /\ Len(sent) = 2
    /\ Len(sent[2].requests) >= 2
    /\ sent[2].status = 200
    /\ sent[2].responses[1] = sent[2].requests[Len(sent[2].requests)].id
    /\ Cardinality(DOMAIN group_members) = Len(groups)

--------------------------------------------------------------------------
(* Properties of name resolution.                                         *)

Unresolved == {group_names[n] : n \in DOMAIN group_names} \ directory

--------------------------------------------------------------------------
(* Properties of the snapshot store, reading.                             *)

(* C10: when the file is missing, unreadable or corrupt, the load of      *)
(* Critical_group_report.py and of pipeline.py returns the empty snapshot *)
(* and does not raise.                                                    *)
C10_LoadFailsSoft ==
    (/\ pc = "loaded"
     /\ variant \in {"critical", "pipeline"}
     /\ artifact.state # "json") =>
        (loaded.outcome = "returned" /\ loaded.value = <<>>)

--------------------------------------------------------------------------
(* C11: saving the snapshot is atomic: at every moment of a save,         *)
(* interrupted or not, the destination holds a complete artifact (the     *)
(* previous one or the new one) or, when there was none, no file; never a *)
(* partial one.                                                           *)
C11_SaveAtomic == dest.state \in {"missing", "json"}

--------------------------------------------------------------------------
(* C12: loading an artifact, saving the loaded value and loading what was *)
(* saved gives a mapping equivalent to the first load: the same keys,     *)
(* each with the same members.                                            *)
C12_RoundTrip ==
    pc = "reloaded" =>
        /\ reloaded.outcome = "returned"
        /\ DOMAIN reloaded.value = DOMAIN loaded.value
        /\ \A g \in DOMAIN loaded.value :
                ToSet(reloaded.value[g]) = ToSet(loaded.value[g])

--------------------------------------------------------------------------
(* C13: when a request of the fetch phase fails as a whole (here: the     *)
(* batch call comes back with a non-success status), the run aborts and   *)
(* the snapshot is never saved.                                           *)
C13_FailedFetchNeverSaves ==
    (\E k \in DOMAIN sent : sent[k].status # 200) => dest = MissingFile

--------------------------------------------------------------------------
(* C14: on a run whose loaded previous snapshot is empty, main saves the  *)
(* current roster as the snapshot and produces no comparison, report or   *)
(* mail; compare_snapshots, called with an empty previous, returns every  *)
(* group of current as newly observed with all its members in added.      *)
BootstrapPersistsOnly ==
    /\ dest.state = "json"
    /\ AsSets(dest.data) = AsSets(current)
    /\ result = <<>>
    /\ emitted = {}

BootstrapAllAdded(r) ==
    /\ DOMAIN r.result = DOMAIN current
    /\ ToSet(r.added_groups) = DOMAIN current
    /\ r.deleted_groups = <<>>
    /\ \A g \in DOMAIN current :
        /\ ToSet(r.result[g].added) = ToSet(current[g])
        /\ r.result[g].removed = <<>>
        /\ r.result[g].unchanged = <<>>

--------------------------------------------------------------------------
(* C15: in the result of compare_snapshots, each of added, removed and    *)
(* unchanged of every group is in ascending order and holds no member     *)
(* twice, whatever the input lists (repeated members included), and the   *)
(* lists do not depend on the order in which the groups are visited.      *)
Ascending(q) == \A i \in 1..(Len(q) - 1) : TextLess(q[i], q[i + 1])

C15_AscendingNoRepeat ==
    (pc = "compared" /\ variant = "critical") =>
        /\ \A g \in DOMAIN result.result :
            /\ Ascending(result.result[g].added)
            /\ Ascending(result.result[g].removed)
            /\ Ascending(result.result[g].unchanged)
        /\ \A order \in Orderings(DOMAIN current \cup DOMAIN previous) :
            compare_snapshots(current, previous, order).result = result.result

--------------------------------------------------------------------------
(* C16: comparing a roster with itself reports no change: the flag is     *)
(* false, no group is listed as added or deleted, and every group has     *)
(* empty added and removed and its whole member set as unchanged.         *)
C16_SelfCompareQuiet ==
    (pc = "compared" /\ variant \in {"critical", "sort"} /\ current = previous) =>
        /\ ~result.changes_detected
        /\ result.added_groups = <<>>
        /\ result.deleted_groups = <<>>
        /\ DOMAIN result.result = DOMAIN current
        /\ \A g \in DOMAIN current :
            /\ result.result[g].added = <<>>
            /\ result.result[g].removed = <<>>
            /\ ToSet(result.result[g].unchanged) = ToSet(current[g])

(* A roster of two groups, one with two members, compared with itself by  *)
(* either script.                                                         *)
C16_Witness ==
    /\ pc = "compared"
    /\ variant \in {"critical", "sort"}
    /\ current = previous
    /\ Cardinality(DOMAIN current) = 2
    /\ \E g \in DOMAIN current : Cardinality(ToSet(current[g])) = 2

--------------------------------------------------------------------------
(* C17: the empty string is never stored as a group key or as a member:   *)
(* neither in the roster get_all_group_members returns nor in the         *)
(* snapshot save_current_snapshot writes, whatever records the service    *)
(* returns.                                                               *)
NoEmptyText(roster) ==
    \A g \in DOMAIN roster :
        g # <<>> /\ \A i \in DOMAIN roster[g] : roster[g][i] # <<>>

C17_NoEmptyText ==
    /\ NoEmptyText(current)
    /\ dest.state = "json" => NoEmptyText(dest.data)

--------------------------------------------------------------------------
--------------------------------------------------------------------------
(* C19: the member collection of every group is a set: the roster the     *)
(* batched get_all_group_members of get_test_with_sort.py builds, and the *)
(* snapshot saved from it, hold each member at most once per group, even  *)
(* when the service returns one label in several records.                 *)
C19_MembersOnce ==
    variant = "sort" =>
        /\ \A g \in DOMAIN group_members : NoRepeat(group_members[g])
        /\ dest.state = "json" => \A g \in DOMAIN dest.data : NoRepeat(dest.data[g])

--------------------------------------------------------------------------
(* C20 as stated: the pipeline emits ChangesDetected = true and exits     *)
(* with 1 exactly when a member is new or removed, exits with 0 exactly   *)
(* when none is, and exits with 2 exactly when configuration loading or a *)
(* step of run raised.                                                    *)
MembersChanged == result.new_members # <<>> \/ result.removed_members # <<>>

C20_ExitCodes ==
    pc = "exited" =>
        /\ exit_code = 2 <=> "fatal_error" \in emitted
        /\ result # <<>> =>
            /\ ("ChangesDetected=true" \in emitted /\ exit_code = 1) <=> MembersChanged
            /\ exit_code = 0 <=> ~MembersChanged

(* C20, amended: the emitted ChangesDetected follows the comparison; the  *)
(* exit code is 1 or 0 by the comparison only when no step raised, and 2  *)
(* when one did, also after ChangesDetected has been emitted.             *)
C20_ExitCodesUnlessRaised ==
    pc = "exited" =>
        /\ exit_code \in {0, 1, 2}
        /\ exit_code = 2 <=> "fatal_error" \in emitted
        /\ result = <<>> =>
            /\ exit_code = 2
            /\ emitted \cap {"ChangesDetected=true", "ChangesDetected=false"} = {}
        /\ result # <<>> =>
            /\ "ChangesDetected=true" \in emitted <=> MembersChanged
            /\ "ChangesDetected=false" \in emitted <=> ~MembersChanged
            /\ exit_code = 1 <=> (MembersChanged /\ "fatal_error" \notin emitted)
            /\ exit_code = 0 <=> (~MembersChanged /\ "fatal_error" \notin emitted)

(* Changes were reported through the variable and the run then failed.    *)
C20_Witness ==
    /\ pc = "exited"
    /\ "ChangesDetected=true" \in emitted
    /\ exit_code = 2
    /\ result.removed_members # <<>>

--------------------------------------------------------------------------
(* C21 as stated: in every run the previous snapshot is read exactly      *)
(* once, as the first step, and the new snapshot is written at most once, *)
(* as the last step: after the comparison, the report and the             *)
(* notification of the run.                                               *)
Count(q, x) == Cardinality({i \in DOMAIN q : q[i] = x})

RunOver == pc \in {"first_run", "done", "exited"} /\ exit_code \in {-1, 0, 1}

C21_ReadFirstWriteLast ==
    /\ Count(steps, "load") <= 1
    /\ Count(steps, "save") <= 1
    /\ \A i \in DOMAIN steps : steps[i] = "load" => i = 1
    /\ \A i \in DOMAIN steps : steps[i] = "save" => i = Len(steps)
    /\ RunOver => Count(steps, "load") = 1

(* C21, amended: the previous snapshot is read exactly once, right after  *)
(* the fetch; the new snapshot is written at most once and after the      *)
(* read: in pipeline.py as the last step, after comparison, output        *)
(* variables and report; in Critical_group_report.py right after the      *)
(* comparison (on a first run right after the read) and before the        *)
(* result file, the report and the mail; in                               *)
(* get_test_with_updates_test.py after the comparison and the report and  *)
(* before the output variables.                                           *)
Before(q, x, y) ==
    \A i, j \in DOMAIN q : (q[i] = x /\ q[j] = y) => i < j

C21_ReadAfterFetchWriteOnce ==
    /\ Count(steps, "load") <= 1
    /\ Count(steps, "save") <= 1
    /\ \A i \in DOMAIN steps : steps[i] = "load" => (i = 2 /\ steps[1] = "fetch")
    /\ RunOver => Count(steps, "load") = 1
    /\ Before(steps, "load", "save")
    /\ Before(steps, "compare", "save")
    /\ variant = "pipeline" =>
        /\ \A i \in DOMAIN steps : steps[i] = "save" => i = Len(steps)
        /\ "save" \in ToSet(steps) =>
                {"compare", "notify", "report"} \subseteq ToSet(steps)
    /\ variant = "critical" =>
        /\ \A i \in DOMAIN steps :
                steps[i] = "save" => steps[i - 1] \in {"load", "compare"}
        /\ Before(steps, "save", "comparison_result")
        /\ Before(steps, "save", "report")
        /\ Before(steps, "save", "notify")
    /\ variant = "updates_test" =>
        /\ \A i \in DOMAIN steps : steps[i] = "save" => steps[i - 1] = "report"
        /\ Before(steps, "save", "notify")

(* A run of Critical_group_report.py that has saved and then reported.    *)
C21_Witness ==
    /\ variant = "critical"
    /\ pc = "done"
    /\ steps = <<"fetch", "load", "compare", "save", "comparison_result", "report", "notify">>

--------------------------------------------------------------------------
(* C22: compare_snapshots of get_test_with_sort.py (which                 *)
(* generate_snapshot of get_test_with_updates_test.py repeats) returns    *)
(* changes_detected = TRUE exactly when some group has a non-empty added  *)
(* or removed list or some group is in only one of the two snapshots, a   *)
(* group with an empty member list included.                              *)
C22_BatchedChangesIff ==
    (pc = "compared" /\ variant = "sort") =>
        (result.changes_detected <=>
            \/ \E g \in DOMAIN result.result :
                    result.result[g].added # <<>> \/ result.result[g].removed # <<>>
            \/ DOMAIN current # DOMAIN previous)

--------------------------------------------------------------------------
(* C23: when the directory and the list of names are the same in two      *)
(* consecutive successful runs of main, the comparison of the second run  *)
(* reports no change: changes_detected is false and added_groups and      *)
(* deleted_groups are empty, whatever the raw names and labels.           *)
C23_SecondRunQuiet ==
    (run_no = 2 /\ pc = "compared") =>
        /\ ~result.changes_detected
        /\ result.added_groups = <<>>
        /\ result.deleted_groups = <<>>

--------------------------------------------------------------------------
(* C24: over any sequence of runs of the batched variant, a group whose   *)
(* membership in the directory never changes is never reported with a     *)
(* non-empty added or removed list, also when its sub-request answers     *)
(* with a status other than 200 in some of the runs.                      *)
C24_StableGroupNeverReported ==
    (variant = "sort" /\ pc = "compared") =>
        \A g \in DOMAIN result.result :
            result.result[g].added = <<>> /\ result.result[g].removed = <<>>

--------------------------------------------------------------------------
(* C25: normalize_snapshot_keys loses no member: every member stored      *)
(* under a key of the input is, cleaned, in the list the result holds     *)
(* under the cleaned key, also when two keys of the input clean to the    *)
(* same key.                                                              *)
C25_NoMemberLost ==
    (variant = "critical" /\ pc = "loaded" /\ artifact.state = "json") =>
        \A k \in DOMAIN artifact.data :
            /\ clean_text(k) \in DOMAIN loaded.value
            /\ \A m \in ToSet(artifact.data[k]) :
                    clean_text(m) \in ToSet(loaded.value[clean_text(k)])

--------------------------------------------------------------------------
(* C26: a run of main of get_test_with_updates_test.py in which every     *)
(* step succeeds ends without raising, whether or not changes were        *)
(* detected, and has set GroupChangesDetected to true, together with      *)
(* GroupsChanged, exactly when changes were detected.                     *)
C26_CompletesAndEmits ==
    (variant = "updates_test" /\ pc \in {"done", "raised"}) =>
        /\ pc = "done"
        /\ "GroupsChanged" \in emitted
        /\ result.changes_detected <=> "GroupChangesDetected=true" \in emitted

--------------------------------------------------------------------------
(* C27, as stated: main takes the first-run branch exactly when no        *)
(* previous artifact exists; a run that loaded an artifact, even one      *)
(* holding an empty mapping, compares.                                    *)
C27_BootstrapIffNoArtifact ==
    (pc \in {"first_run", "compared"}) =>
        (pc = "first_run" <=> artifact.state = "missing")

(* C27, amended: main takes the first-run branch, in which it saves the   *)
(* current roster and neither compares nor reports, exactly when the load *)
(* returned an empty mapping: there is no artifact, or the artifact holds *)
(* an empty mapping.  A run that loaded a non-empty mapping compares.     *)
C27_BootstrapIffPreviousEmpty ==
    /\ pc = "first_run" =>
          /\ \/ artifact.state = "missing"
             \/ artifact.state = "json" /\ artifact.data = EmptyDict
          /\ result = <<>>
          /\ emitted = {}
          /\ dest.state = "json"
    /\ pc = "compared" =>
          /\ artifact.state = "json"
          /\ artifact.data # EmptyDict

(* a run that found an artifact holding an empty mapping, fetched a       *)
(* roster with a group and took the first-run branch                      *)
C27_Witness ==
    /\ pc = "first_run"
    /\ artifact = JsonFile(EmptyDict, <<>>)
    /\ current # EmptyDict

==========================================================================
